---- MODULE Spec2Model ----
(***************************************************************************)
(* PngMe (pngme.py): a message is hidden in the least-significant bit of   *)
(* the blue channel of an image's pixels and read back.                    *)
(*                                                                         *)
(* A string is modelled as the sequence of its characters: the message as  *)
(* a sequence of code points, a bit string as a sequence of the            *)
(* characters "0" and "1".  An image is a record with its width, height    *)
(* and the pixel function px[<<x, y>>] = <<r, g, b, a>>.                    *)
(***************************************************************************)
EXTENDS Integers, Sequences, FiniteSets, TLC

VARIABLES
    pc,            \* position in main / encode_message_in_image
    raw_input,     \* the message typed by the user (code points)
    image,         \* the opened image, mutated in place by the encoder
    image_orig,    \* the pixel data as opened (assigned by OpenImage only)
    can_fit,       \* result of is_image_bigger_than_message
    bin_message,   \* to_bin_repr(raw_input), the argument of the encoder
    enc_bin,       \* the encoder's local bin_message after the coda step
    L,             \* the encoder's L
    x,             \* the encoder's x
    y,             \* the encoder's y
    visited,       \* pixel indices y*w+x the write loop has processed
    encoded_file,  \* the pixel data saved as <name>_encoded.png
    blues,         \* all_blue(encoded_image), or the list given to blue_to_bin
    blue_as_bin,   \* blue_to_bin(blues)
    printed,       \* the string print_message writes to stdout
    err            \* the exception that ended the run, or "none"

vars == <<pc, raw_input, image, image_orig, can_fit, bin_message, enc_bin,
          L, x, y, visited, encoded_file, blues, blue_as_bin, printed, err>>

(***************************************************************************)
(* Bounds of the model                                                     *)
(***************************************************************************)
MaxMsgLen == 2
MaxW == 8
MaxH == 24
MaxPixels == 26
MaxBlues == 16

\* Code points the user's message is drawn from: NUL, the letter A, the
\* largest single-byte character and the first one that needs nine bits.
Alphabet == {0, 1, 65, 255, 256}

\* Blue channel of the opened image at row-major index i, as
\* (base + stride*i) % 256.
BluePatterns == {<<0, 0>>, <<255, 0>>, <<254, 1>>}

\* values of variables that have not been assigned yet
NoValue == <<"none">>
NoText == <<-1>>
NoGroups == <<NoValue>>

(***************************************************************************)
(* Bit Codec                                                               *)
(***************************************************************************)
\* str(n) for n in {0, 1}
StrOfBit(n) == IF n = 0 THEN "0" ELSE "1"

\* int(c) for a character c in {"0", "1"}
IntOfDigit(c) == IF c = "0" THEN 0 ELSE 1

\* n * '0'
Zeros(n) == [i \in 1..n |-> "0"]

\* format(n, 'b')
RECURSIVE FormatB(_)
FormatB(n) ==
    IF n < 2 THEN <<StrOfBit(n)>>
    ELSE FormatB(n \div 2) \o <<StrOfBit(n % 2)>>

bin_repr_deci(int_deci, number_of_figures) ==
    LET s == FormatB(int_deci)
    IN  IF Len(s) < number_of_figures
        THEN Zeros(number_of_figures - Len(s)) \o s
        ELSE s

RECURSIVE cat_elements(_)
cat_elements(iter) ==
    IF iter = <<>> THEN <<>>
    ELSE Head(iter) \o cat_elements(Tail(iter))

to_bin_repr(message) ==
    cat_elements([k \in 1..Len(message) |-> bin_repr_deci(message[k], 8)])

\* int('0b' + bin_str, 2)
RECURSIVE IntOfBin(_)
IntOfBin(s) ==
    IF s = <<>> THEN 0
    ELSE 2 * IntOfBin(SubSeq(s, 1, Len(s) - 1)) + IntOfDigit(s[Len(s)])

bin_to_chr(bin_str) == IntOfBin(bin_str)

print_message(encoded_message_list) ==
    [k \in 1..Len(encoded_message_list) |-> bin_to_chr(encoded_message_list[k])]

(***************************************************************************)
(* Capacity Checker                                                        *)
(***************************************************************************)
\* variant: the coda counted as one bit, as the comment on bin_length words it
bin_length_coda_bit(message) == 8 * Len(message) + 1

bin_length(message) == 8 * (Len(message) + 1)

is_image_bigger_than_message(img, message) ==
    img.width * img.height >= bin_length(message)

(***************************************************************************)
(* Image access (Pillow)                                                   *)
(***************************************************************************)
InImage(im, px, py) ==
    px >= 0 /\ px < im.width /\ py >= 0 /\ py < im.height

getpixel(im, px, py) == im.px[<<px, py>>]

putpixel(im, px, py, value) ==
    [im EXCEPT !.px = [@ EXCEPT ![<<px, py>>] = value]]

(***************************************************************************)
(* Pixel Encoder                                                           *)
(***************************************************************************)
\* if bin_message[-8] != 8*'0': bin_message += 8*'0'
\* bin_message[-8] is the one-character string at offset 8 from the end.
EnsureCoda(bm) ==
    IF <<bm[Len(bm) - 7]>> # Zeros(8) THEN bm \o Zeros(8) ELSE bm

\* (L%w, L//w), the point at which the write loop stops
StopPoint(len, w) == <<len % w, len \div w>>

\* variant: coordinates swapped in the index
MessageIndex_transposed(px, py, w) == px * w + py

\* index into the bit string for the pixel (px, py)
MessageIndex(px, py, w) == py * w + px

\* variant: the adjusted value is written to the green channel
WriteBit_green(pixel, bit) ==
    LET r == pixel[1]
        g == pixel[2]
        b == pixel[3]
        a == pixel[4]
    IN  IF IntOfDigit(bit) = 0 /\ b % 2 = 1 THEN <<r, b - 1, b, a>>
        ELSE IF IntOfDigit(bit) = 1 /\ b % 2 = 0 THEN <<r, b + 1, b, a>>
        ELSE pixel

\* variant: the blue value is adjusted without testing its parity
WriteBit_no_parity_test(pixel, bit) ==
    LET r == pixel[1]
        g == pixel[2]
        b == pixel[3]
        a == pixel[4]
    IN  IF IntOfDigit(bit) = 0 THEN <<r, g, b - 1, a>>
        ELSE <<r, g, b + 1, a>>

\* the value written to the pixel for the character bit, lines 91-94
WriteBit(pixel, bit) ==
    LET r == pixel[1]
        g == pixel[2]
        b == pixel[3]
        a == pixel[4]
    IN  IF IntOfDigit(bit) = 0 /\ b % 2 = 1 THEN <<r, g, b - 1, a>>
        ELSE IF IntOfDigit(bit) = 1 /\ b % 2 = 0 THEN <<r, g, b + 1, a>>
        ELSE pixel

\* variant: the end of the row is tested before x is incremented
Advance_test_before_increment(px, py, w) ==
    IF px % w = 0 THEN <<0, py + 1>> ELSE <<px + 1, py>>

\* x += 1; if x % w == 0: y += 1; x = 0
Advance(px, py, w) ==
    IF (px + 1) % w = 0 THEN <<0, py + 1>> ELSE <<px + 1, py>>

(***************************************************************************)
(* Pixel Decoder                                                           *)
(***************************************************************************)
RECURSIVE all_blue_from(_, _, _)
all_blue_from(im, px, py) ==
    IF py >= im.height THEN <<>>
    ELSE IF px >= im.width THEN all_blue_from(im, 0, py + 1)
    ELSE <<getpixel(im, px, py)[3]>> \o all_blue_from(im, px + 1, py)

all_blue(im) == all_blue_from(im, 0, 0)

RECURSIVE blue_to_bin_from(_, _, _, _)
blue_to_bin_from(all_blues, i, cur, bin_vals) ==
    IF i > Len(all_blues) THEN bin_vals
    ELSE LET cur2 == cur \o <<StrOfBit(all_blues[i] % 2)>>
         IN  IF Len(cur2) = 8
             THEN IF cur2 = Zeros(8)
                  THEN bin_vals
                  ELSE blue_to_bin_from(all_blues, i + 1, <<>>,
                                        Append(bin_vals, cur2))
             ELSE blue_to_bin_from(all_blues, i + 1, cur2, bin_vals)

\* variant: the all-zero group is not popped before returning
RECURSIVE blue_to_bin_keep_coda_from(_, _, _, _)
blue_to_bin_keep_coda_from(all_blues, i, cur, bin_vals) ==
    IF i > Len(all_blues) THEN bin_vals
    ELSE LET cur2 == cur \o <<StrOfBit(all_blues[i] % 2)>>
         IN  IF Len(cur2) = 8
             THEN IF cur2 = Zeros(8)
                  THEN Append(bin_vals, cur2)
                  ELSE blue_to_bin_keep_coda_from(all_blues, i + 1, <<>>,
                                                  Append(bin_vals, cur2))
             ELSE blue_to_bin_keep_coda_from(all_blues, i + 1, cur2, bin_vals)

blue_to_bin_keep_coda(all_blues) ==
    blue_to_bin_keep_coda_from(all_blues, 1, <<>>, <<>>)

\* variant: the group is tested for the coda before it is complete, so the
\* scan of a list without coda ends with the incomplete group appended
RECURSIVE blue_to_bin_keep_partial_from(_, _, _, _)
blue_to_bin_keep_partial_from(all_blues, i, cur, bin_vals) ==
    IF i > Len(all_blues)
    THEN IF cur = <<>> THEN bin_vals ELSE Append(bin_vals, cur)
    ELSE LET cur2 == cur \o <<StrOfBit(all_blues[i] % 2)>>
         IN  IF Len(cur2) = 8
             THEN IF cur2 = Zeros(8)
                  THEN bin_vals
                  ELSE blue_to_bin_keep_partial_from(all_blues, i + 1, <<>>,
                                                     Append(bin_vals, cur2))
             ELSE blue_to_bin_keep_partial_from(all_blues, i + 1, cur2, bin_vals)

blue_to_bin_keep_partial(all_blues) ==
    blue_to_bin_keep_partial_from(all_blues, 1, <<>>, <<>>)

blue_to_bin(all_blues) == blue_to_bin_from(all_blues, 1, <<>>, <<>>)

(***************************************************************************)
(* Inputs                                                                  *)
(***************************************************************************)
Messages == UNION {[1..n -> Alphabet] : n \in 0..MaxMsgLen}

OrigPixel(pat, i) ==
    <<(17 + 5 * i) % 256, (200 + 11 * i) % 256,
      (pat[1] + pat[2] * i) % 256, 255 - (i % 3)>>

MkImage(w, h, pat) ==
    [width |-> w, height |-> h,
     px |-> [p \in (0..(w - 1)) \X (0..(h - 1)) |->
                OrigPixel(pat, p[2] * w + p[1])]]

Images ==
    {MkImage(s[1], s[2], pat) :
        s \in {t \in (1..MaxW) \X (1..MaxH) : t[1] * t[2] <= MaxPixels},
        pat \in BluePatterns}

\* blue value lists for the decoder: any parity at every position
BlueOf(i, bit) == 2 * ((37 * i) % 128) + bit

(***************************************************************************)
(* main                                                                    *)
(***************************************************************************)
NoImage == [width |-> 0, height |-> 0, px |-> <<>>]

Init ==
    /\ pc = "start"
    /\ raw_input = NoText
    /\ image = NoImage
    /\ image_orig = NoImage
    /\ can_fit = FALSE
    /\ bin_message = NoValue
    /\ enc_bin = NoValue
    /\ L = 0
    /\ x = 0
    /\ y = 0
    /\ visited = <<>>
    /\ encoded_file = NoImage
    /\ blues = NoText
    /\ blue_as_bin = NoGroups
    /\ printed = NoText
    /\ err = "none"

\* raw_input = get_message()
GetMessage ==
    /\ pc = "start"
    /\ raw_input' \in Messages
    /\ pc' = "got_message"
    /\ UNCHANGED <<image, image_orig, can_fit, bin_message, enc_bin, L, x, y,
                   visited, encoded_file, blues, blue_as_bin, printed, err>>

\* image = Image.open(image_orig_path)
OpenImage ==
    /\ pc = "got_message"
    /\ image' \in Images
    /\ image_orig' = image'
    /\ pc' = "opened"
    /\ UNCHANGED <<raw_input, can_fit, bin_message, enc_bin, L, x, y, visited,
                   encoded_file, blues, blue_as_bin, printed, err>>

\* can_fit = is_image_bigger_than_message(image, raw_input)
CheckCapacity ==
    /\ pc = "opened"
    /\ can_fit' = is_image_bigger_than_message(image, raw_input)
    /\ pc' = "checked"
    /\ UNCHANGED <<raw_input, image, image_orig, bin_message, enc_bin, L, x, y,
                   visited, encoded_file, blues, blue_as_bin, printed, err>>

\* variant: the result of the check is ignored
TakesEncodeBranch_unconditional(fit) == TRUE

\* if can_fit:
TakesEncodeBranch(fit) == fit

\* bin_message = to_bin_repr(raw_input)
ToBinRepr ==
    /\ pc = "checked"
    /\ TakesEncodeBranch(can_fit)
    /\ bin_message' = to_bin_repr(raw_input)
    /\ pc' = "call_encode"
    /\ UNCHANGED <<raw_input, image, image_orig, can_fit, enc_bin, L, x, y,
                   visited, encoded_file, blues, blue_as_bin, printed, err>>

\* else: print('Please write a smaller message or use a bigger picture')
Reject ==
    /\ pc = "checked"
    /\ ~TakesEncodeBranch(can_fit)
    /\ pc' = "rejected"
    /\ UNCHANGED <<raw_input, image, image_orig, can_fit, bin_message, enc_bin,
                   L, x, y, visited, encoded_file, blues, blue_as_bin, printed,
                   err>>

\* encode_message_in_image, from the call to the first test of the loop.
\* bin_message[-8] raises IndexError on a string shorter than 8.
EncodeEnter ==
    /\ pc = "call_encode"
    /\ IF Len(bin_message) < 8
       THEN /\ pc' = "error"
            /\ err' = "IndexError: string index out of range"
            /\ UNCHANGED <<enc_bin, L, x, y>>
       ELSE /\ enc_bin' = EnsureCoda(bin_message)
            /\ L' = Len(enc_bin')
            /\ x' = 0
            /\ y' = 0
            /\ pc' = "encoding"
            /\ err' = err
    /\ UNCHANGED <<raw_input, image, image_orig, can_fit, bin_message, visited,
                   encoded_file, blues, blue_as_bin, printed>>

\* one iteration of the while loop
EncodeStep ==
    /\ pc = "encoding"
    /\ <<x, y>> # StopPoint(L, image.width)
    /\ IF ~InImage(image, x, y)
       THEN /\ pc' = "error"
            /\ err' = "IndexError: image index out of range"
            /\ UNCHANGED <<image, x, y, visited>>
       ELSE IF MessageIndex(x, y, image.width) >= L
       THEN /\ pc' = "error"
            /\ err' = "IndexError: string index out of range"
            /\ UNCHANGED <<image, x, y, visited>>
       ELSE LET bit == enc_bin[MessageIndex(x, y, image.width) + 1]
                old == getpixel(image, x, y)
                new == WriteBit(old, bit)
                nxt == Advance(x, y, image.width)
            IN  /\ image' = IF new # old THEN putpixel(image, x, y, new)
                                         ELSE image
                /\ visited' = Append(visited, y * image.width + x)
                /\ x' = nxt[1]
                /\ y' = nxt[2]
                /\ UNCHANGED <<pc, err>>
    /\ UNCHANGED <<raw_input, image_orig, can_fit, bin_message, enc_bin, L,
                   encoded_file, blues, blue_as_bin, printed>>

\* the loop condition is false: encode_message_in_image returns
EncodeReturn ==
    /\ pc = "encoding"
    /\ <<x, y>> = StopPoint(L, image.width)
    /\ pc' = "encoded"
    /\ UNCHANGED <<raw_input, image, image_orig, can_fit, bin_message, enc_bin,
                   L, x, y, visited, encoded_file, blues, blue_as_bin, printed,
                   err>>

\* save_encoded_image(image): PNG keeps every channel value
SaveEncodedImage ==
    /\ pc = "encoded"
    /\ encoded_file' = image
    /\ pc' = "saved"
    /\ UNCHANGED <<raw_input, image, image_orig, can_fit, bin_message, enc_bin,
                   L, x, y, visited, blues, blue_as_bin, printed, err>>

\* encoded_image = Image.open(encoded_filename); blues = all_blue(encoded_image)
ReadBlues ==
    /\ pc = "saved"
    /\ blues' = all_blue(encoded_file)
    /\ pc' = "extracted"
    /\ UNCHANGED <<raw_input, image, image_orig, can_fit, bin_message, enc_bin,
                   L, x, y, visited, encoded_file, blue_as_bin, printed, err>>

\* blue_as_bin = blue_to_bin(blues)
Decode ==
    /\ pc = "extracted"
    /\ blue_as_bin' = blue_to_bin(blues)
    /\ pc' = "decoded"
    /\ UNCHANGED <<raw_input, image, image_orig, can_fit, bin_message, enc_bin,
                   L, x, y, visited, encoded_file, blues, printed, err>>

\* print_message(blue_as_bin)
PrintMessage ==
    /\ pc = "decoded"
    /\ printed' = print_message(blue_as_bin)
    /\ pc' = "done"
    /\ UNCHANGED <<raw_input, image, image_orig, can_fit, bin_message, enc_bin,
                   L, x, y, visited, encoded_file, blues, blue_as_bin, err>>

Next ==
    \/ GetMessage
    \/ OpenImage
    \/ CheckCapacity
    \/ ToBinRepr
    \/ Reject
    \/ EncodeEnter
    \/ EncodeStep
    \/ EncodeReturn
    \/ SaveEncodedImage
    \/ ReadBlues
    \/ Decode
    \/ PrintMessage

Spec == Init /\ [][Next]_vars

\* main runs in one thread that is never suspended: a step that can be
\* taken is taken
FairSpec == Spec /\ WF_vars(Next)

(***************************************************************************)
(* blue_to_bin and print_message applied to any list of blue values        *)
(***************************************************************************)
InitDecoder ==
    /\ pc = "listing"
    /\ blues = <<>>
    /\ raw_input = NoText
    /\ image = NoImage
    /\ image_orig = NoImage
    /\ can_fit = FALSE
    /\ bin_message = NoValue
    /\ enc_bin = NoValue
    /\ L = 0
    /\ x = 0
    /\ y = 0
    /\ visited = <<>>
    /\ encoded_file = NoImage
    /\ blue_as_bin = NoGroups
    /\ printed = NoText
    /\ err = "none"

\* the caller's list grows by one blue value of either parity
GiveBlue ==
    /\ pc = "listing"
    /\ Len(blues) < MaxBlues
    /\ \E bit \in {0, 1} : blues' = Append(blues, BlueOf(Len(blues) + 1, bit))
    /\ UNCHANGED <<pc, raw_input, image, image_orig, can_fit, bin_message,
                   enc_bin, L, x, y, visited, encoded_file, blue_as_bin,
                   printed, err>>

\* the list is passed to blue_to_bin
CallDecoder ==
    /\ pc = "listing"
    /\ pc' = "extracted"
    /\ UNCHANGED <<raw_input, image, image_orig, can_fit, bin_message, enc_bin,
                   L, x, y, visited, encoded_file, blues, blue_as_bin, printed,
                   err>>

NextDecoder ==
    \/ GiveBlue
    \/ CallDecoder
    \/ Decode
    \/ PrintMessage

SpecCodec == (Init \/ InitDecoder) /\ [][Next \/ NextDecoder]_vars

(***************************************************************************)
(* Vocabulary of the properties                                            *)
(***************************************************************************)
\* pixel coordinates of row-major index i in an image of width w
PointOf(i, w) == <<i % w, i \div w>>

Capacity == image.width * image.height

\* encode_message_in_image has been entered and has computed L
InEncoder == pc \in {"encoding", "encoded", "saved", "extracted", "decoded", "done"}
                \/ (pc = "error" /\ enc_bin # NoValue)

\* encode_message_in_image has returned
Encoded == pc \in {"encoded", "saved", "extracted", "decoded", "done"}

\* the run is over on the branch that encodes
RunOver == pc \in {"done", "error"}

SingleByteNonNul(message) == \A k \in 1..Len(message) : message[k] \in 1..255

EndsWithZeroByte(bm) ==
    Len(bm) >= 8 /\ \A k \in (Len(bm) - 7)..Len(bm) : bm[k] = "0"

BlueChanged(p) == image.px[p][3] # image_orig.px[p][3]

\* the k-th complete group of eight least-significant bits of a blue list
GroupOf(bl, k) == [j \in 1..8 |-> IF bl[8 * (k - 1) + j] % 2 = 0 THEN "0" ELSE "1"]

NumGroups(bl) == Len(bl) \div 8

ZeroGroups(bl) == {k \in 1..NumGroups(bl) : GroupOf(bl, k) = Zeros(8)}

FirstZeroGroup(bl) ==
    CHOOSE k \in ZeroGroups(bl) : \A m \in ZeroGroups(bl) : k <= m

Decoded == pc \in {"decoded", "done"}

(***************************************************************************)
(* Properties                                                              *)
(***************************************************************************)
\* C1: a message of single-byte, non-NUL characters (the empty message
\* included) put through to_bin_repr, encode_message_in_image, all_blue,
\* blue_to_bin and print_message into an image that passed the capacity
\* check comes out exactly as it went in.
C1_RoundTrip ==
    (RunOver /\ can_fit /\ SingleByteNonNul(raw_input))
        => (pc = "done" /\ printed = raw_input)

C3_NoWriteWithoutCapacity ==
    /\ (image # image_orig \/ encoded_file # NoImage \/ bin_message # NoValue
            \/ pc \in {"call_encode", "encoding", "encoded", "saved", "error"})
          => (can_fit /\ Capacity >= 8 * Len(raw_input) + 8)
    /\ (pc \in {"checked", "rejected"} /\ ~can_fit)
          => (image = image_orig /\ visited = <<>> /\ enc_bin = NoValue)
    /\ (pc \in {"extracted", "decoded", "done"} /\ image # NoImage) => can_fit

C3_Witness ==
    /\ pc = "rejected"
    /\ ~can_fit
    /\ Len(raw_input) = MaxMsgLen
    /\ Capacity = 8 * Len(raw_input) + 7
    /\ image = image_orig

\* C4: during and after an encode the red, green and alpha channels of
\* every pixel, and every channel of every pixel at a row-major index >= L,
\* have their original values.
C4_Frame ==
    InEncoder =>
        \A p \in DOMAIN image.px :
            /\ image.px[p][1] = image_orig.px[p][1]
            /\ image.px[p][2] = image_orig.px[p][2]
            /\ image.px[p][4] = image_orig.px[p][4]
            /\ (p[2] * image.width + p[1] >= L) => image.px[p] = image_orig.px[p]

C4_Witness ==
    /\ pc = "encoded"
    /\ Capacity > L
    /\ \E p \in DOMAIN image.px : BlueChanged(p)
    /\ \E p \in DOMAIN image.px :
          p[2] * image.width + p[1] >= L /\ image_orig.px[p][3] % 2 = 1

\* C5: a written pixel's blue value is the original with only its least-
\* significant bit replaced by the target bit: one less only from an odd
\* value with bit 0, one more only from an even value with bit 1, never
\* outside 0..255.
C5_MinimalPerturbation ==
    InEncoder =>
        \A k \in 1..Len(visited) :
            LET p == PointOf(visited[k], image.width)
                b == image_orig.px[p][3]
                v == IF enc_bin[visited[k] + 1] = "1" THEN 1 ELSE 0
                n == image.px[p][3]
            IN  /\ n = 2 * (b \div 2) + v
                /\ n \in 0..255
                /\ n - b \in {-1, 0, 1}
                /\ (n = b - 1) => (b % 2 = 1 /\ v = 0)
                /\ (n = b + 1) => (b % 2 = 0 /\ v = 1)

C5_Witness ==
    /\ pc = "encoded"
    /\ \E k \in 1..Len(visited) :
          LET p == PointOf(visited[k], image.width)
          IN  image_orig.px[p][3] = 255 /\ image.px[p][3] = 254
    /\ \E k \in 1..Len(visited) :
          LET p == PointOf(visited[k], image.width)
          IN  image_orig.px[p][3] = 254 /\ image.px[p][3] = 255
    /\ \E k \in 1..Len(visited) :
          LET p == PointOf(visited[k], image.width)
          IN  image_orig.px[p][3] = 0 /\ image.px[p][3] = 0

\* C6: after the encoder returns, the blue least-significant bit of pixel
\* (i mod w, i div w) is bit i of the final stream for every i < L, all_blue
\* lists the pixels in the same order, and for the message "A" the first
\* eight bits read 0,1,0,0,0,0,0,1 at any width.
C6_Linearization ==
    /\ Encoded =>
          \A i \in 0..(L - 1) :
              image.px[PointOf(i, image.width)][3] % 2
                  = (IF enc_bin[i + 1] = "1" THEN 1 ELSE 0)
    /\ (pc \in {"extracted", "decoded", "done"} /\ image # NoImage) =>
          /\ Len(blues) = Capacity
          /\ \A i \in 0..(Capacity - 1) :
                blues[i + 1] = encoded_file.px[PointOf(i, image.width)][3]
          /\ (raw_input = <<65>>) =>
                [i \in 1..8 |-> blues[i] % 2] = <<0, 1, 0, 0, 0, 0, 0, 1>>

C6_Witness ==
    /\ pc = "extracted"
    /\ raw_input = <<65>>
    /\ image.width = 3
    /\ image.height > 5
    /\ \E p \in DOMAIN image.px : BlueChanged(p)

\* C7: the encoder appends the eight-zero-bit terminator if and only if the
\* supplied stream does not already end with an all-zero byte: such a
\* stream keeps its length, any other grows by exactly 8.
C7_TerminatorRule ==
    (InEncoder /\ image # NoImage) =>
        /\ EndsWithZeroByte(bin_message) => L = Len(bin_message)
        /\ ~EndsWithZeroByte(bin_message) => L = Len(bin_message) + 8

\* C8: blue_to_bin stops at the first 8-aligned all-zero group; its output
\* is exactly the complete groups before that group and never contains an
\* all-zero group; "A" in an 8x3 image decodes to "A".
C8_TerminatorDetection ==
    /\ Decoded =>
          /\ \A k \in 1..Len(blue_as_bin) : blue_as_bin[k] # Zeros(8)
          /\ (ZeroGroups(blues) # {}) =>
                blue_as_bin = [k \in 1..(FirstZeroGroup(blues) - 1) |-> GroupOf(blues, k)]
    /\ (pc = "done" /\ raw_input = <<65>>) => printed = <<65>>

C8_Witness ==
    /\ pc = "decoded"
    /\ Len(blues) = 16
    /\ ZeroGroups(blues) = {2}
    /\ blue_as_bin = <<<<"0", "1", "0", "0", "0", "0", "0", "1">>>>

\* the write loop's position and the indices it has processed
WriteLoopInv ==
    /\ InEncoder =>
          /\ visited = [k \in 1..Len(visited) |-> k - 1]
          /\ Len(visited) <= L
          /\ Len(visited) <= Capacity
    /\ pc = "encoding" =>
          /\ x < image.width
          /\ y * image.width + x = Len(visited)
    /\ Encoded => (L <= Capacity /\ Len(visited) = L /\ err = "none")
    /\ (pc = "error" /\ bin_message # <<>>) =>
          /\ L > Capacity
          /\ Len(visited) = Capacity
          /\ err = "IndexError: image index out of range"

C10_MissingTerminator ==
    (Decoded /\ ZeroGroups(blues) = {}) =>
        blue_as_bin = [k \in 1..NumGroups(blues) |-> GroupOf(blues, k)]

C10_Witness ==
    /\ pc = "decoded"
    /\ Len(blues) = 15
    /\ ZeroGroups(blues) = {}
    /\ Len(blue_as_bin) = 1
====
